---------------------------- MODULE Spec2Model ----------------------------
(***************************************************************************)
(* Model of gpsToKml.py: the trajectory cleaner (clean, checkStraight),    *)
(* the landmark detector (decorate, calculateLeft), the duration           *)
(* aggregator (moving_duration, total_duration) and the pipeline of main.  *)
(*                                                                         *)
(* Numbers.  Latitudes and longitudes are integers counting units of       *)
(* 1e-5 degree, speeds are whole knots, timestamps are whole seconds.      *)
(* Every comparison the code makes on floats is evaluated exactly on       *)
(* these integers:                                                         *)
(*   0.25 degree                    = 25000 units                          *)
(*   tolerance 10^-9.5 degree^2     = sqrt(10) units^2, so for an integer  *)
(*                                    x >= 0:  x < tolerance  <=>  x <= 3   *)
(*   min_segment_length 0.00005 deg = 5 units                              *)
(*   cos_theta > 0.999   <=>  dot > 0 and dot^2 * 1000^2 > 999^2 * |u|^2|v|^2 *)
(*   cross_norm > 0.3    <=>  cross > 0 and cross^2 * 10^2 > 3^2 * |u|^2|v|^2 *)
(* cos_theta and cross_norm depend only on the directions of u and v, so   *)
(* they are evaluated on u and v divided by the gcd of their components,   *)
(* which keeps the products inside TLC's 32-bit integers.                  *)
(***************************************************************************)
EXTENDS Integers, Sequences, FiniteSets, TLC

VARIABLES points, abc, pc, cleaned, recleaned, stops, left_turns,
          moving, total, left

vars == <<points, abc, pc, cleaned, recleaned, stops, left_turns,
          moving, total, left>>

---------------------------------------------------------------------------
(* Program constants *)

\* timestamp=None (TrackPoint default; parse_datetime_from_rmc on failure)
None == -1

\* clean / decorate: minspeed = 5
minspeed == 5

\* decorate: turn_min_speed = 3
turn_min_speed == 3

\* moving_duration: a.speed_knots > 2 or b.speed_knots > 2
moving_speed == 2

\* clean: abs(...) > 0.25 degree, in units of 1e-5 degree
JumpLimit == 25000

\* checkStraight: tolerance = 10^-9.5; the largest integer below sqrt(10)
tolerance_floor == 3

\* checkStraight: max_angle_cos_threshold = 0.999 = CosNum / CosDen
CosNum == 999

CosDen == 1000

\* calculateLeft: min_sin = 0.3 = SinNum / SinDen
SinNum == 3

SinDen == 10

\* calculateLeft: min_segment_length = 0.00005 degree, in units of 1e-5 degree
min_segment_length == 5

---------------------------------------------------------------------------
(* Arithmetic helpers *)

Abs(x) == IF x < 0 THEN -x ELSE x

RECURSIVE GCD(_, _)
GCD(a, b) == IF b = 0 THEN a ELSE GCD(b, a % b)

\* the direction of vector <<x, y>>: the vector divided by the gcd of its
\* components (itself when it is the zero vector)
Direction(x, y) ==
    LET g == GCD(Abs(x), Abs(y))
    IN  IF g = 0 THEN <<x, y>> ELSE <<x \div g, y \div g>>

\* x*x + y*y < b for b >= 1, without squaring a component that is too
\* large for the sum to be below b anyway
SumSqBelow(x, y, b) ==
    /\ Abs(x) < b
    /\ Abs(y) < b
    /\ x * x + y * y < b

\* TrackPoint(lat, lon, speed_knots, timestamp)
TrackPoint(lat, lon, speed_knots, timestamp) ==
    [lat |-> lat, lon |-> lon, speed_knots |-> speed_knots,
     timestamp |-> timestamp]

---------------------------------------------------------------------------
(* checkStraight(a, b, c): a, b, c are <<lat, lon>> pairs *)

\* checkStraight with the wedge computed from the wrong components
checkStraight_WedgeMixed(a, b, c) ==
    LET ux == b[1] - a[1]
        uy == b[2] - a[2]
        vx == c[1] - b[1]
        vy == c[2] - b[2]
        u_short == SumSqBelow(ux, uy, tolerance_floor + 1)
        v_short == SumSqBelow(vx, vy, tolerance_floor + 1)
        wedge == ux * vx - uy * vy
        is_collinear == Abs(wedge) <= tolerance_floor
        du == Direction(ux, uy)
        dv == Direction(vx, vy)
        dot_product == du[1] * dv[1] + du[2] * dv[2]
        mag_u_sq == du[1] * du[1] + du[2] * du[2]
        mag_v_sq == dv[1] * dv[1] + dv[2] * dv[2]
        is_tightly_aligned ==
            /\ dot_product > 0
            /\ dot_product * dot_product * CosDen * CosDen
                 > CosNum * CosNum * mag_u_sq * mag_v_sq
    IN  IF u_short \/ v_short THEN FALSE
        ELSE is_collinear /\ is_tightly_aligned

checkStraight(a, b, c) ==
    LET ux == b[1] - a[1]
        uy == b[2] - a[2]
        vx == c[1] - b[1]
        vy == c[2] - b[2]
        \* mag_u_sq < tolerance: a squared length is an integer, and it is
        \* below sqrt(10) exactly when it is at most tolerance_floor
        u_short == SumSqBelow(ux, uy, tolerance_floor + 1)
        v_short == SumSqBelow(vx, vy, tolerance_floor + 1)
        wedge == ux * vy - uy * vx
        is_collinear == Abs(wedge) <= tolerance_floor
        du == Direction(ux, uy)
        dv == Direction(vx, vy)
        dot_product == du[1] * dv[1] + du[2] * dv[2]
        mag_u_sq == du[1] * du[1] + du[2] * du[2]
        mag_v_sq == dv[1] * dv[1] + dv[2] * dv[2]
        is_tightly_aligned ==
            /\ dot_product > 0
            /\ dot_product * dot_product * CosDen * CosDen
                 > CosNum * CosNum * mag_u_sq * mag_v_sq
    IN  IF u_short \/ v_short THEN FALSE
        ELSE is_collinear /\ is_tightly_aligned

---------------------------------------------------------------------------
(* clean(points).  Loop indices p, end_idx are the code's 0-based indices; *)
(* points[p] of the code is points[p + 1] here.  last_kept is <<>> for     *)
(* None and <<pt>> for a point.                                            *)

RECURSIVE EndScan(_, _)
EndScan(pts, end_idx) ==
    IF end_idx >= 0 /\ pts[end_idx + 1].speed_knots <= minspeed
    THEN EndScan(pts, end_idx - 1)
    ELSE end_idx

\* CleanBody with the kept point inserted at the front of clean_points
CleanBody_Prepend(pts, end_idx, p, st) ==
    LET pt == pts[p + 1]
    IN  IF pt.speed_knots <= minspeed /\ st.start_parked = 0 THEN st
        ELSE
        LET st1 == [st EXCEPT !.start_parked = 1]
            lk == st1.last_kept
        IN  IF /\ lk # <<>>
               /\ \/ Abs(lk[1].lat - pt.lat) > JumpLimit
                  \/ Abs(lk[1].lon - pt.lon) > JumpLimit
            THEN st1
            ELSE IF /\ lk # <<>>
                    /\ p < end_idx
                    /\ checkStraight(<<pts[p].lat, pts[p].lon>>,
                                     <<pts[p + 1].lat, pts[p + 1].lon>>,
                                     <<pts[p + 2].lat, pts[p + 2].lon>>)
            THEN st1
            ELSE [st1 EXCEPT !.clean_points = <<pt>> \o @,
                             !.last_kept = <<pt>>]

\* CleanBody with the jump test made against the previous input point
\* instead of the last kept point
CleanBody_JumpFromPrevious(pts, end_idx, p, st) ==
    LET pt == pts[p + 1]
    IN  IF pt.speed_knots <= minspeed /\ st.start_parked = 0 THEN st
        ELSE
        LET st1 == [st EXCEPT !.start_parked = 1]
            lk == st1.last_kept
        IN  IF /\ lk # <<>>
               /\ \/ Abs(pts[p].lat - pt.lat) > JumpLimit
                  \/ Abs(pts[p].lon - pt.lon) > JumpLimit
            THEN st1
            ELSE IF /\ lk # <<>>
                    /\ p < end_idx
                    /\ checkStraight(<<pts[p].lat, pts[p].lon>>,
                                     <<pts[p + 1].lat, pts[p + 1].lon>>,
                                     <<pts[p + 2].lat, pts[p + 2].lon>>)
            THEN st1
            ELSE [st1 EXCEPT !.clean_points = Append(@, pt),
                             !.last_kept = <<pt>>]

\* one iteration of "for p in range(0, end_idx + 1)"
CleanBody(pts, end_idx, p, st) ==
    LET pt == pts[p + 1]
    IN  IF pt.speed_knots <= minspeed /\ st.start_parked = 0 THEN st
        ELSE
        LET st1 == [st EXCEPT !.start_parked = 1]
            lk == st1.last_kept
        IN  IF /\ lk # <<>>
               /\ \/ Abs(lk[1].lat - pt.lat) > JumpLimit
                  \/ Abs(lk[1].lon - pt.lon) > JumpLimit
            THEN st1
            ELSE IF /\ lk # <<>>
                    /\ p < end_idx
                    /\ checkStraight(<<pts[p].lat, pts[p].lon>>,
                                     <<pts[p + 1].lat, pts[p + 1].lon>>,
                                     <<pts[p + 2].lat, pts[p + 2].lon>>)
            THEN st1
            ELSE [st1 EXCEPT !.clean_points = Append(@, pt),
                             !.last_kept = <<pt>>]

RECURSIVE CleanLoop(_, _, _, _)
CleanLoop(pts, end_idx, p, st) ==
    IF p > end_idx THEN st
    ELSE CleanLoop(pts, end_idx, p + 1, CleanBody(pts, end_idx, p, st))

clean(pts) ==
    IF pts = <<>> THEN <<>>
    ELSE LET end_idx == EndScan(pts, Len(pts) - 1)
         IN  IF end_idx <= 0 THEN <<>>
             ELSE CleanLoop(pts, end_idx, 0,
                            [start_parked |-> 0, clean_points |-> <<>>,
                             last_kept |-> <<>>]).clean_points

---------------------------------------------------------------------------
(* calculateLeft(a, b, c): a, b, c are <<lon, lat>> pairs *)

calculateLeft(a, b, c) ==
    LET ux == b[1] - a[1]
        uy == b[2] - a[2]
        vx == c[1] - b[1]
        vy == c[2] - b[2]
        \* len_u < min_segment_length  <=>  len_u^2 < min_segment_length^2
        u_small == SumSqBelow(ux, uy, min_segment_length * min_segment_length)
        v_small == SumSqBelow(vx, vy, min_segment_length * min_segment_length)
        du == Direction(ux, uy)
        dv == Direction(vx, vy)
        cross == du[1] * dv[2] - du[2] * dv[1]
        len_u_sq == du[1] * du[1] + du[2] * du[2]
        len_v_sq == dv[1] * dv[1] + dv[2] * dv[2]
    IN  IF u_small \/ v_small THEN FALSE
        ELSE /\ cross > 0
             /\ cross * cross * SinDen * SinDen
                  > SinNum * SinNum * len_u_sq * len_v_sq

---------------------------------------------------------------------------
(* decorate(points).  np.mean of a column is the exact fraction            *)
(* <<numerator, denominator>> in lowest terms; a landmark is               *)
(* <<mean_lat, mean_lon>>.                                                 *)

RECURSIVE SumOf(_)
SumOf(xs) == IF xs = <<>> THEN 0 ELSE Head(xs) + SumOf(Tail(xs))

Mean(xs) ==
    LET s == SumOf(xs)
        g == GCD(Abs(s), Len(xs))
    IN  <<s \div g, Len(xs) \div g>>

\* np.mean(np.array(sight), axis=0) of a non-empty list of (lat, lon) pairs
MeanLatLon(sight) ==
    <<Mean([k \in 1..Len(sight) |-> sight[k][1]]),
      Mean([k \in 1..Len(sight) |-> sight[k][2]])>>

\* DecorateBody without the turn_min_speed test
DecorateBody_NoTurnSpeed(pts, i, st) ==
    LET b == pts[i + 1]
        a == pts[i - 1]
        c == pts[i + 3]
        st1 == IF b.speed_knots <= minspeed
               THEN [st EXCEPT !.stop_sight = Append(@, <<b.lat, b.lon>>)]
               ELSE IF b.speed_knots > minspeed /\ Len(st.stop_sight) # 0
               THEN [st EXCEPT !.stops = Append(@, MeanLatLon(st.stop_sight)),
                               !.stop_sight = <<>>]
               ELSE st
        isleft == calculateLeft(<<a.lon, a.lat>>, <<b.lon, b.lat>>,
                                <<c.lon, c.lat>>)
    IN  IF isleft
        THEN [st1 EXCEPT !.raw_left_count = @ + 1,
                         !.left_sight = Append(@, <<b.lat, b.lon>>)]
        ELSE IF ~isleft /\ Len(st1.left_sight) # 0
        THEN [st1 EXCEPT !.left_turns = Append(@, MeanLatLon(st1.left_sight)),
                         !.left_sight = <<>>]
        ELSE st1

\* one iteration of "for i in range(2, n - 2)"; i is the code's 0-based index
DecorateBody(pts, i, st) ==
    LET b == pts[i + 1]
        a == pts[i - 1]
        c == pts[i + 3]
        st1 == IF b.speed_knots <= minspeed
               THEN [st EXCEPT !.stop_sight = Append(@, <<b.lat, b.lon>>)]
               ELSE IF b.speed_knots > minspeed /\ Len(st.stop_sight) # 0
               THEN [st EXCEPT !.stops = Append(@, MeanLatLon(st.stop_sight)),
                               !.stop_sight = <<>>]
               ELSE st
        isleft == IF b.speed_knots < turn_min_speed THEN FALSE
                  ELSE calculateLeft(<<a.lon, a.lat>>, <<b.lon, b.lat>>,
                                     <<c.lon, c.lat>>)
    IN  IF isleft
        THEN [st1 EXCEPT !.raw_left_count = @ + 1,
                         !.left_sight = Append(@, <<b.lat, b.lon>>)]
        ELSE IF ~isleft /\ Len(st1.left_sight) # 0
        THEN [st1 EXCEPT !.left_turns = Append(@, MeanLatLon(st1.left_sight)),
                         !.left_sight = <<>>]
        ELSE st1

\* the loop "for i in range(2, n - 2)" run from index i up to, not
\* including, index stop
RECURSIVE DecorateLoop(_, _, _, _)
DecorateLoop(pts, i, stop, st) ==
    IF i >= stop THEN st
    ELSE DecorateLoop(pts, i + 1, stop, DecorateBody(pts, i, st))

DecorateStart ==
    [stops |-> <<>>, stop_sight |-> <<>>, left_turns |-> <<>>,
     left_sight |-> <<>>, raw_left_count |-> 0]

\* decorate without the flushes after the loop
DecorateFlush_Missing(st) == st

\* the two flushes after the loop
DecorateFlush(st) ==
    LET st1 == IF Len(st.stop_sight) # 0
               THEN [st EXCEPT !.stops = Append(@, MeanLatLon(st.stop_sight))]
               ELSE st
    IN  IF Len(st1.left_sight) # 0
        THEN [st1 EXCEPT !.left_turns = Append(@, MeanLatLon(st1.left_sight))]
        ELSE st1

\* returns <<stops, left_turns>>
decorate(pts) ==
    LET n == Len(pts)
    IN  IF n < 5 THEN <<(<<>>), (<<>>)>>
        ELSE LET st == DecorateFlush(DecorateLoop(pts, 2, n - 2, DecorateStart))
             IN  <<st.stops, st.left_turns>>

---------------------------------------------------------------------------
(* moving_duration, total_duration.  A returned value is tagged with its   *)
(* Python type: the int 0, a str, or the TypeError raised by subtracting   *)
(* with a None timestamp.                                                  *)

IntValue(n) == [type |-> "int", int |-> n, str |-> ""]

StrValue(s) == [type |-> "str", int |-> 0, str |-> s]

TypeError == [type |-> "TypeError", int |-> 0, str |-> ""]

Unset == [type |-> "unset", int |-> 0, str |-> ""]

\* f"{int(x):02}"
Pad2(x) == IF 0 <= x /\ x < 10 THEN "0" \o ToString(x) ELSE ToString(x)

\* hours, remainder = divmod(d, 3600); minutes, secs = divmod(remainder, 60)
\* f"{int(hours):02}:{int(minutes):02}:{int(secs):02}"
FormatHMS(d) ==
    LET hours == d \div 3600
        remainder == d % 3600
        minutes == remainder \div 60
        secs == remainder % 60
    IN  Pad2(hours) \o ":" \o Pad2(minutes) \o ":" \o Pad2(secs)

\* MovingBody counting a pair only when both of its points are moving
MovingBody_BothMoving(pts, p, acc) ==
    LET a == pts[p]
        b == pts[p + 1]
    IN  IF a.timestamp = None \/ b.timestamp = None THEN acc
        ELSE IF a.speed_knots > moving_speed /\ b.speed_knots > moving_speed
        THEN acc + (b.timestamp - a.timestamp)
        ELSE acc

\* one iteration of "for p in range(1, len(points))", p the code's 0-based
\* index, acc the running moving_duration
MovingBody(pts, p, acc) ==
    LET a == pts[p]
        b == pts[p + 1]
    IN  IF a.timestamp = None \/ b.timestamp = None THEN acc
        ELSE IF a.speed_knots > moving_speed \/ b.speed_knots > moving_speed
        THEN acc + (b.timestamp - a.timestamp)
        ELSE acc

RECURSIVE MovingLoop(_, _, _)
MovingLoop(pts, p, acc) ==
    IF p >= Len(pts) THEN acc
    ELSE MovingLoop(pts, p + 1, MovingBody(pts, p, acc))

\* moving_duration with the sentinel returned for an empty list only
moving_duration_EmptyOnly(pts) ==
    IF pts = <<>> THEN IntValue(0)
    ELSE StrValue(FormatHMS(MovingLoop(pts, 1, 0)))

moving_duration(pts) ==
    IF pts = <<>> \/ Len(pts) < 2 THEN IntValue(0)
    ELSE StrValue(FormatHMS(MovingLoop(pts, 1, 0)))

total_duration(pts) ==
    IF pts = <<>> \/ Len(pts) < 2 THEN IntValue(0)
    ELSE LET start == pts[1].timestamp
             end == pts[Len(pts)].timestamp
         IN  IF start = None \/ end = None THEN TypeError
             ELSE StrValue(FormatHMS(end - start))

---------------------------------------------------------------------------
(* Bounds and input families *)

\* longest general input of clean
MaxLen == 4

\* longest input of decorate
MaxDecLen == 7

\* longest general input of the duration functions
MaxDurLen == 3

\* most stationary / moving points of a "parked, then driving" trajectory
MaxParked == 5

MaxDriving == 5

\* longest input of main
MaxMainLen == 3

SeqsUpTo(S, n) == UNION {[1..k -> S] : k \in 0..n}

\* clean: points 0.15 degree apart in latitude (no jump) or 0.3 degree
\* apart in longitude (a jump), parked or driving
CleanInputs ==
    SeqsUpTo({TrackPoint(pos[1], pos[2], sp, None) :
                 pos \in {<<0, 0>>, <<15000, 0>>, <<30000, 30000>>},
                 sp \in {0, 10}},
             MaxLen)

\* clean: 7 points on one line, uniformly spaced by size * dir, all driving
LineInputs ==
    {[k \in 1..7 |-> TrackPoint((k - 1) * size * dir[1],
                                (k - 1) * size * dir[2], sp, None)] :
        size \in {1, 2, 4166, 4167},
        dir \in ({-1, 0, 1, 2} \X {-1, 0, 1, 2}) \ {<<0, 0>>},
        sp \in {6, 20}}

\* decorate: a path of east ("E") and north ("N") steps of 10 units; the
\* scanned points (0-based indices 2..n-3) take every speed of {2, 4, 6}
DecPath(n, steps, speeds) ==
    [k \in 1..n |->
        TrackPoint(10 * Cardinality({j \in 1..(k - 1) : steps[j] = "N"}),
                   10 * Cardinality({j \in 1..(k - 1) : steps[j] = "E"}),
                   IF k \in 3..(n - 2) THEN speeds[k] ELSE 6,
                   None)]

DecInputs ==
    UNION {{DecPath(n, steps, speeds) :
               steps \in [1..(n - 1) -> {"E", "N"}],
               speeds \in [3..(n - 2) -> {2, 4, 6}]} : n \in 5..MaxDecLen}

\* durations: points at one place, with or without a timestamp
DurInputs ==
    SeqsUpTo({TrackPoint(0, 0, sp, ts) :
                 sp \in {0, 2, 3}, ts \in {None, 0, 3725}},
             MaxDurLen)

\* durations: k parked points, then m driving points, one second apart
ParkedThenDriving(k, m) ==
    [i \in 1..(k + m) |-> TrackPoint(0, 0, IF i <= k THEN 0 ELSE 20, i - 1)]

ParkedDrivingInputs ==
    {ParkedThenDriving(k, m) : k \in 1..MaxParked, m \in 1..MaxDriving}

\* calculateLeft: triples of <<lon, lat>> pairs, at the scale of a degree
\* and at the scale of min_segment_length
LeftInputs ==
    LET big == {<<0, 0>>, <<100000, 0>>, <<100000, 100000>>,
                <<100000, -100000>>}
        small == {<<0, 0>>, <<10, 0>>, <<20, 3>>, <<20, 4>>, <<4, 0>>,
                  <<3, 4>>}
    IN  [1..3 -> big] \cup [1..3 -> small]

\* main: points as parse_nmea_file returns them, any of them without a
\* timestamp
MainInputs ==
    SeqsUpTo({TrackPoint(pos[1], pos[2], sp, ts) :
                 pos \in {<<0, 0>>, <<15000, 0>>, <<30000, 0>>},
                 sp \in {0, 10}, ts \in {None, 7}},
             MaxMainLen)

NoTriple == <<(<<0, 0>>), (<<0, 0>>), (<<0, 0>>)>>

---------------------------------------------------------------------------
(* The functions applied to an input *)

Blank ==
    /\ cleaned = <<>>
    /\ recleaned = <<>>
    /\ stops = <<>>
    /\ left_turns = <<>>
    /\ moving = Unset
    /\ total = Unset
    /\ left = FALSE

Init ==
    /\ pc = "input"
    /\ \/ /\ points \in CleanInputs \cup LineInputs \cup DecInputs
                          \cup DurInputs \cup ParkedDrivingInputs
          /\ abc = NoTriple
       \/ /\ points = <<>>
          /\ abc \in LeftInputs
    /\ Blank

\* cleaned = clean(points)
ApplyClean ==
    /\ pc = "input"
    /\ cleaned' = clean(points)
    /\ pc' = "cleaned"
    /\ UNCHANGED <<points, abc, recleaned, stops, left_turns, moving, total,
                   left>>

\* the cleaner run a second time, on its own output
ApplyCleanAgain ==
    /\ pc = "cleaned"
    /\ recleaned' = clean(cleaned)
    /\ pc' = "recleaned"
    /\ UNCHANGED <<points, abc, cleaned, stops, left_turns, moving, total,
                   left>>

\* stops, left_turns = decorate(points)
ApplyDecorate ==
    /\ pc = "input"
    /\ stops' = decorate(points)[1]
    /\ left_turns' = decorate(points)[2]
    /\ pc' = "decorated"
    /\ UNCHANGED <<points, abc, cleaned, recleaned, moving, total, left>>

ApplyMovingDuration ==
    /\ pc = "input"
    /\ moving' = moving_duration(points)
    /\ pc' = "moving"
    /\ UNCHANGED <<points, abc, cleaned, recleaned, stops, left_turns, total,
                   left>>

ApplyTotalDuration ==
    /\ pc = "input"
    /\ total' = total_duration(points)
    /\ pc' = "total"
    /\ UNCHANGED <<points, abc, cleaned, recleaned, stops, left_turns, moving,
                   left>>

ApplyCalculateLeft ==
    /\ pc = "input"
    /\ left' = calculateLeft(abc[1], abc[2], abc[3])
    /\ pc' = "left"
    /\ UNCHANGED <<points, abc, cleaned, recleaned, stops, left_turns, moving,
                   total>>

Next ==
    \/ ApplyClean
    \/ ApplyCleanAgain
    \/ ApplyDecorate
    \/ ApplyMovingDuration
    \/ ApplyTotalDuration
    \/ ApplyCalculateLeft

Spec == Init /\ [][Next]_vars

---------------------------------------------------------------------------
(* main(): parse_nmea_file has returned points; cleaned is main's variable *)
(* points after "points = clean(points)".                                  *)

MainInit ==
    /\ pc = "main"
    /\ points \in MainInputs
    /\ abc = NoTriple
    /\ Blank

\* if not points: print("Error: No valid points found."); sys.exit(1)
MainNoPoints ==
    /\ pc = "main"
    /\ points = <<>>
    /\ pc' = "exit"
    /\ UNCHANGED <<points, abc, cleaned, recleaned, stops, left_turns, moving,
                   total, left>>

\* points = clean(points)
MainClean ==
    /\ pc = "main"
    /\ points # <<>>
    /\ cleaned' = clean(points)
    /\ pc' = "clean"
    /\ UNCHANGED <<points, abc, recleaned, stops, left_turns, moving, total,
                   left>>

\* stops, left_turns = decorate(points); write_kml(...)
MainDecorate ==
    /\ pc = "clean"
    /\ stops' = decorate(cleaned)[1]
    /\ left_turns' = decorate(cleaned)[2]
    /\ pc' = "decorate"
    /\ UNCHANGED <<points, abc, cleaned, recleaned, moving, total, left>>

\* print("Moving duration of journey: ", moving_duration(points))
MainMovingDuration ==
    /\ pc = "decorate"
    /\ moving' = moving_duration(cleaned)
    /\ pc' = "moving_duration"
    /\ UNCHANGED <<points, abc, cleaned, recleaned, stops, left_turns, total,
                   left>>

\* print("Total duration of journey: ", total_duration(points)); an
\* uncaught TypeError ends the program
MainTotalDuration ==
    /\ pc = "moving_duration"
    /\ total' = total_duration(cleaned)
    /\ pc' = IF total_duration(cleaned) = TypeError THEN "error" ELSE "done"
    /\ UNCHANGED <<points, abc, cleaned, recleaned, stops, left_turns, moving,
                   left>>

MainNext ==
    \/ MainNoPoints
    \/ MainClean
    \/ MainDecorate
    \/ MainMovingDuration
    \/ MainTotalDuration

SpecMain == MainInit /\ [][MainNext]_vars

---------------------------------------------------------------------------
(* Vocabulary of the properties *)

Last(xs) == xs[Len(xs)]

Moving(pt) == pt.speed_knots > minspeed

\* out is in obtained by deleting elements: some strictly increasing choice
\* of indices of in spells out
RECURSIVE IsSubsequence(_, _)
IsSubsequence(out, in) ==
    IF out = <<>> THEN TRUE
    ELSE IF in = <<>> THEN FALSE
    ELSE IF Head(out) = Head(in) THEN IsSubsequence(Tail(out), Tail(in))
    ELSE IsSubsequence(out, Tail(in))

\* the index of the first driving point of pts (0 when there is none)
FirstMoving(pts) ==
    IF \E k \in 1..Len(pts) : Moving(pts[k])
    THEN CHOOSE k \in 1..Len(pts) :
            Moving(pts[k]) /\ \A j \in 1..(k - 1) : ~Moving(pts[j])
    ELSE 0

\* the common step <<dlat, dlon>> of a uniformly spaced sequence
StepOf(pts) == <<pts[2].lat - pts[1].lat, pts[2].lon - pts[1].lon>>

\* 7 points on one line, uniformly spaced by a non-zero step, all driving
SevenCollinear(pts) ==
    /\ Len(pts) = 7
    /\ StepOf(pts) # <<0, 0>>
    /\ \A k \in 1..6 :
          <<pts[k + 1].lat - pts[k].lat, pts[k + 1].lon - pts[k].lon>>
             = StepOf(pts)
    /\ \A k \in 1..7 : Moving(pts[k])

\* the step is at least the collinearity tolerance long (squared), and the
\* whole line spans at most 0.25 degree in each axis
WithinSpan(pts) ==
    /\ ~SumSqBelow(StepOf(pts)[1], StepOf(pts)[2], tolerance_floor + 1)
    /\ Abs(6 * StepOf(pts)[1]) <= JumpLimit
    /\ Abs(6 * StepOf(pts)[2]) <= JumpLimit

---------------------------------------------------------------------------
(* C1 -- claim: running clean on its own output removes no further leading *)
(* or trailing points: clean(clean(P)) begins with the first point of      *)
(* clean(P) and ends with its last point, and is non-empty whenever        *)
(* clean(P) is.  The code violates it.                                     *)
C1_BoundaryTrimIdempotent ==
    (pc = "recleaned" /\ cleaned # <<>>) =>
        /\ recleaned # <<>>
        /\ Head(recleaned) = Head(cleaned)
        /\ Last(recleaned) = Last(cleaned)

(* C2 -- claim: the trailing trim empties the result only when every point *)
(* is parked; for every input with a driving point, clean's output is      *)
(* non-empty and starts with the first driving point of the input.  The    *)
(* code violates it.                                                       *)
C2_TrailingTrimKeepsFirstMoving ==
    (pc = "cleaned" /\ FirstMoving(points) # 0) =>
        /\ cleaned # <<>>
        /\ Head(cleaned) = points[FirstMoving(points)]

(* C3 -- the claim as stated: every 7 uniformly spaced collinear driving   *)
(* points are cleaned to exactly the first and the last of them.           *)
C3_SevenCollinearAnySpacing ==
    (pc = "cleaned" /\ SevenCollinear(points)) =>
        cleaned = <<points[1], points[7]>>

(* C3 -- amended: 7 uniformly spaced collinear driving points whose step   *)
(* is not shorter than the collinearity tolerance and whose first and last *)
(* point are at most 0.25 degree apart in each axis are cleaned to exactly *)
(* the first and the last of them.                                         *)
C3_SevenCollinearWithinSpan ==
    (pc = "cleaned" /\ SevenCollinear(points) /\ WithinSpan(points)) =>
        cleaned = <<points[1], points[7]>>

C3_Witness ==
    /\ pc = "cleaned"
    /\ SevenCollinear(points)
    /\ WithinSpan(points)
    /\ Abs(6 * StepOf(points)[1]) > JumpLimit - 10
    /\ cleaned = <<points[1], points[7]>>

---------------------------------------------------------------------------
(* Vocabulary of the duration properties *)

\* k parked points (speed 0), then driving points (speed 20), every point
\* timestamped one second after the one before
ParkedDriving(pts, k) ==
    /\ 1 <= k
    /\ k < Len(pts)
    /\ \A i \in 1..Len(pts) :
          /\ pts[i].timestamp # None
          /\ pts[i].speed_knots = (IF i <= k THEN 0 ELSE 20)
    /\ \A i \in 1..(Len(pts) - 1) :
          pts[i + 1].timestamp = pts[i].timestamp + 1

\* an adjacent pair with both timestamps present and a speed above 2 knots
QualifyingPair(pts) ==
    \E i \in 1..(Len(pts) - 1) :
        /\ pts[i].timestamp # None
        /\ pts[i + 1].timestamp # None
        /\ \/ pts[i].speed_knots > moving_speed
           \/ pts[i + 1].speed_knots > moving_speed

(* C4 -- the claim as stated: k >= 1 parked points followed by m >= 1      *)
(* driving points one second apart give a moving duration of m - 1 seconds *)
(* and a total duration of k + m - 1 seconds (4 and 9 seconds for 5 + 5).  *)
C4_MovingIsDrivingMinusOne ==
    \A k \in 1..(Len(points) - 1) :
        ParkedDriving(points, k) =>
            /\ pc = "moving" =>
                  moving = StrValue(FormatHMS(Len(points) - k - 1))
            /\ pc = "total" =>
                  total = StrValue(FormatHMS(Len(points) - 1))

(* C4 -- amended: the moving duration is m seconds, because the pair that  *)
(* joins the last parked point to the first driving point qualifies too    *)
(* (5 seconds, "00:00:05", for 5 + 5); the total duration is k + m - 1     *)
(* seconds (9 seconds, "00:00:09", for 5 + 5).                             *)
C4_MovingIsDriving ==
    /\ \A k \in 1..(Len(points) - 1) :
          ParkedDriving(points, k) =>
              /\ pc = "moving" =>
                    moving = StrValue(FormatHMS(Len(points) - k))
              /\ pc = "total" =>
                    total = StrValue(FormatHMS(Len(points) - 1))
    /\ (Len(points) = 10 /\ ParkedDriving(points, 5)) =>
          /\ pc = "moving" => moving = StrValue("00:00:05")
          /\ pc = "total" => total = StrValue("00:00:09")

C4_Witness ==
    /\ pc = "moving"
    /\ Len(points) = 10
    /\ ParkedDriving(points, 5)
    /\ moving = StrValue("00:00:05")

(* C5 -- the claim as stated: both functions return the number 0 for fewer *)
(* than two points, moving_duration also returns the number 0 when no      *)
(* adjacent pair qualifies, and a formatted string is returned only        *)
(* otherwise.                                                              *)
C5_ZeroWithoutQualifyingPair ==
    /\ pc = "moving" =>
          IF Len(points) < 2 \/ ~QualifyingPair(points)
          THEN moving = IntValue(0)
          ELSE moving.type = "str"
    /\ pc = "total" =>
          /\ Len(points) < 2 => total = IntValue(0)
          /\ total.type = "str" => Len(points) >= 2

(* C5 -- amended: both functions return the number 0 exactly for fewer     *)
(* than two points; for two or more points moving_duration always returns  *)
(* a formatted string, "00:00:00" when no adjacent pair qualifies, and     *)
(* total_duration returns a formatted string when both end points carry a  *)
(* timestamp.                                                              *)
C5_ZeroOnlyBelowTwoPoints ==
    /\ pc = "moving" =>
          /\ Len(points) < 2 => moving = IntValue(0)
          /\ Len(points) >= 2 => moving.type = "str"
          /\ (Len(points) >= 2 /\ ~QualifyingPair(points)) =>
                moving = StrValue("00:00:00")
    /\ pc = "total" =>
          /\ Len(points) < 2 => total = IntValue(0)
          /\ (/\ Len(points) >= 2
              /\ points[1].timestamp # None
              /\ Last(points).timestamp # None) => total.type = "str"
          /\ total.type = "str" => Len(points) >= 2

C5_Witness ==
    /\ pc = "moving"
    /\ Len(points) >= 2
    /\ ~QualifyingPair(points)
    /\ \A i \in 1..Len(points) : points[i].timestamp # None
    /\ moving = StrValue("00:00:00")

---------------------------------------------------------------------------
(* C6 -- clean adds nothing and keeps the order: its output is the input   *)
(* with elements deleted (a strictly increasing choice of input indices),  *)
(* also when it runs on its own output, and it leaves its input unchanged. *)
C6_OutputIsSubsequence ==
    /\ [](/\ pc = "cleaned" => IsSubsequence(cleaned, points)
          /\ pc = "recleaned" => IsSubsequence(recleaned, cleaned))
    /\ [][points' = points /\ (pc = "cleaned" => cleaned' = cleaned)]_vars

C6_Witness ==
    /\ pc = "cleaned"
    /\ Len(cleaned) >= 2
    /\ Len(cleaned) < Len(points) - 1
    /\ Head(cleaned) # points[1]
    /\ Last(cleaned) # Last(points)

---------------------------------------------------------------------------
(* C9 -- consecutive points of clean's output are at most 0.25 degree      *)
(* apart in latitude and in longitude.                                     *)
C9_NoJumpInOutput ==
    (pc = "cleaned") =>
        \A i \in 1..(Len(cleaned) - 1) :
            /\ Abs(cleaned[i + 1].lat - cleaned[i].lat) <= JumpLimit
            /\ Abs(cleaned[i + 1].lon - cleaned[i].lon) <= JumpLimit

\* an input with a jump between two driving points, one of them rejected,
\* and an output that still has two points
C9_Witness ==
    /\ pc = "cleaned"
    /\ Len(cleaned) >= 2
    /\ \E k \in 1..(Len(points) - 1) :
          /\ Moving(points[k])
          /\ Moving(points[k + 1])
          /\ Abs(points[k + 1].lon - points[k].lon) > JumpLimit
          /\ points[k] = Head(cleaned)

---------------------------------------------------------------------------
(* C10 -- claim: main never ends in an error whatever timestamps are       *)
(* missing, and never calls total_duration on a cleaned trajectory of two  *)
(* or more points whose first or last point has no timestamp.  The code    *)
(* violates it.                                                            *)
C10_MainNeverFails ==
    /\ pc # "error"
    /\ pc = "moving_duration" =>
          ~(/\ Len(cleaned) >= 2
            /\ \/ cleaned[1].timestamp = None
               \/ Last(cleaned).timestamp = None)

---------------------------------------------------------------------------
(* Vocabulary of the landmark properties.  Indices are 1-based: the scan   *)
(* indices 2..n-3 of the code are 3..n-2 here.                             *)

ScanIndices(pts) == 3..(Len(pts) - 2)

StoppedAt(pts, k) == pts[k].speed_knots <= minspeed

\* the geometry of the window centred on k is a left turn
LeftGeometryAt(pts, k) ==
    calculateLeft(<<pts[k - 2].lon, pts[k - 2].lat>>,
                  <<pts[k].lon, pts[k].lat>>,
                  <<pts[k + 2].lon, pts[k + 2].lat>>)

\* the centre point k is classified left
LeftAt(pts, k) ==
    pts[k].speed_knots >= turn_min_speed /\ LeftGeometryAt(pts, k)

\* the maximal runs <<first, last>> of consecutive scan indices that qualify
MaximalRuns(pts, Q(_, _)) ==
    {r \in ScanIndices(pts) \X ScanIndices(pts) :
        /\ r[1] <= r[2]
        /\ \A j \in r[1]..r[2] : Q(pts, j)
        /\ ~(r[1] - 1 \in ScanIndices(pts) /\ Q(pts, r[1] - 1))
        /\ ~(r[2] + 1 \in ScanIndices(pts) /\ Q(pts, r[2] + 1))}

\* the mean coordinate of the members first..last of a run
RunLandmark(pts, r) ==
    MeanLatLon([j \in 1..(r[2] - r[1] + 1) |->
                   <<pts[r[1] + j - 1].lat, pts[r[1] + j - 1].lon>>])

\* marks lists one landmark per maximal run, in the order of the runs
OneLandmarkPerRun(marks, pts, Q(_, _)) ==
    /\ Len(marks) = Cardinality(MaximalRuns(pts, Q))
    /\ \A r \in MaximalRuns(pts, Q) :
          marks[1 + Cardinality({q \in MaximalRuns(pts, Q) : q[1] < r[1]})]
             = RunLandmark(pts, r)

(* C7 -- decorate lists exactly one stop landmark per maximal run of       *)
(* consecutive scan indices with speed <= 5 knots, in the order the runs   *)
(* close, each the mean of exactly the members of its run, a run still     *)
(* open at the end of the scan included; likewise one turn landmark per    *)
(* maximal run of points classified left; inputs of 0 to 4 points give two *)
(* empty lists.                                                            *)
C7_OneLandmarkPerRun ==
    (pc = "decorated") =>
        /\ OneLandmarkPerRun(stops, points, StoppedAt)
        /\ OneLandmarkPerRun(left_turns, points, LeftAt)
        /\ Len(points) < 5 => (stops = <<>> /\ left_turns = <<>>)

\* two stop runs, the second still open when the scan ends, and a turn run
\* closed by a point that is not a left turn
C7_Witness ==
    /\ pc = "decorated"
    /\ Len(stops) = 2
    /\ StoppedAt(points, Len(points) - 2)
    /\ Len(left_turns) = 1
    /\ ~LeftAt(points, Len(points) - 2)

---------------------------------------------------------------------------
\* cross_norm > min_sin computed on the vectors themselves
SineAboveMin(a, b, c) ==
    LET ux == b[1] - a[1]
        uy == b[2] - a[2]
        vx == c[1] - b[1]
        vy == c[2] - b[2]
        cross == ux * vy - uy * vx
    IN  /\ cross > 0
        /\ cross * cross * SinDen * SinDen
             > SinNum * SinNum * (ux * ux + uy * uy) * (vx * vx + vy * vy)

\* the sign of the cross product ux*vy - uy*vx is positive
CrossPositive(a, b, c) ==
    LET du == Direction(b[1] - a[1], b[2] - a[2])
        dv == Direction(c[1] - b[1], c[2] - b[2])
    IN  du[1] * dv[2] - du[2] * dv[1] > 0

\* every coordinate of the triple is small enough to square the products
SmallTriple(t) == \A k \in 1..3 : Abs(t[k][1]) <= 20 /\ Abs(t[k][2]) <= 20

(* C8 -- calculateLeft is never true when the cross product is not         *)
(* positive or a segment is shorter than min_segment_length, and is true   *)
(* exactly when both segments are long enough and the cross product over   *)
(* |u||v| exceeds 0.3; it is true for (0,0),(1,0),(1,1) and false for      *)
(* (0,0),(1,0),(1,-1); and in decorate no scanned point slower than        *)
(* 3 knots is added to a turn cluster, whatever its geometry.              *)
C8_LeftTurnClassification ==
    /\ (pc = "left") =>
          /\ left => CrossPositive(abc[1], abc[2], abc[3])
          /\ left =>
                /\ ~SumSqBelow(abc[2][1] - abc[1][1], abc[2][2] - abc[1][2],
                               min_segment_length * min_segment_length)
                /\ ~SumSqBelow(abc[3][1] - abc[2][1], abc[3][2] - abc[2][2],
                               min_segment_length * min_segment_length)
          /\ SmallTriple(abc) =>
                (left <=>
                    /\ (abc[2][1] - abc[1][1]) * (abc[2][1] - abc[1][1])
                         + (abc[2][2] - abc[1][2]) * (abc[2][2] - abc[1][2])
                         >= min_segment_length * min_segment_length
                    /\ (abc[3][1] - abc[2][1]) * (abc[3][1] - abc[2][1])
                         + (abc[3][2] - abc[2][2]) * (abc[3][2] - abc[2][2])
                         >= min_segment_length * min_segment_length
                    /\ SineAboveMin(abc[1], abc[2], abc[3]))
          /\ abc = <<(<<0, 0>>), (<<100000, 0>>), (<<100000, 100000>>)>>
                => left
          /\ abc = <<(<<0, 0>>), (<<100000, 0>>), (<<100000, -100000>>)>>
                => ~left
    /\ (pc = "decorated") =>
          \A k \in ScanIndices(points) :
              points[k].speed_knots < turn_min_speed =>
                  LET before == DecorateLoop(points, 2, k - 1, DecorateStart)
                      after == DecorateLoop(points, 2, k, DecorateStart)
                  IN  /\ after.raw_left_count = before.raw_left_count
                      /\ after.left_sight = <<>>
                      /\ \A r \in MaximalRuns(points, LeftAt) :
                            ~(k \in r[1]..r[2])
                      /\ OneLandmarkPerRun(left_turns, points, LeftAt)

\* a scanned point below 3 knots whose geometry is a left turn, right after
\* a point that was added to the turn cluster
C8_Witness ==
    /\ pc = "decorated"
    /\ \E k \in ScanIndices(points) :
          /\ points[k].speed_knots < turn_min_speed
          /\ LeftGeometryAt(points, k)
          /\ k - 1 \in ScanIndices(points)
          /\ LeftAt(points, k - 1)
    /\ Len(left_turns) >= 1

=============================================================================
